---- MODULE Spec2Model ----
(***************************************************************************)
(* Model of src/main.py: class DoublePendulum and the driver that steps    *)
(* it.  Python floats are modelled as fixed-point integers with Scale      *)
(* units per 1.0; every product and quotient rounds to the nearest unit,   *)
(* in the order the source evaluates it.  A non-finite float (inf or nan)  *)
(* is the single value NaN.                                                *)
(***************************************************************************)
EXTENDS Integers, Sequences, FiniteSets, TLC

VARIABLES
    pc,            \* "new" before DoublePendulum(...) has run, "live" after
    init_arg,      \* __init__'s argument init_state (None or four numbers)
    init_state,    \* self.init_state (degrees)
    params,        \* self.params = (l1, l2, m1, m2, g)
    origin,        \* self.origin
    time_elapsed,  \* self.time_elapsed
    state,         \* self.state = (theta1, omega1, theta2, omega2)
    dt,            \* the driver's global dt
    nsteps,        \* number of step calls that returned
    last,          \* the method called last
    exc,           \* the exception the last call raised, or "none"
    solver,        \* the status of the last odeint call that returned
    ret            \* what the last call returned

vars == <<pc, init_arg, init_state, params, origin, time_elapsed, state,
          dt, nsteps, last, exc, solver, ret>>

----------------------------------------------------------------------------
(* Floats *)

\* dtype='float': one unit of the fixed-point representation per 1/Scale.
Scale == 1000

\* np.pi, in units of 1/Scale.
PI == 3142

\* A non-finite float (inf, -inf or nan).
NaN == -(Scale * Scale * Scale)

Finite(x) == x # NaN

AllFinite(s) == \A i \in DOMAIN s : Finite(s[i])

Abs(a) == IF a < 0 THEN -a ELSE a

Sgn(a) == IF a < 0 THEN -1 ELSE 1

\* a / b rounded to the nearest integer, halves away from zero (b # 0).
RoundDiv(a, b) == Sgn(a) * Sgn(b) * ((Abs(a) + (Abs(b) \div 2)) \div Abs(b))

\* float * float
Mul(a, b) == RoundDiv(a * b, Scale)

\* numpy float64 / float64: a zero divisor gives inf or nan, never an exception.
NpDiv(a, b) == IF b = 0 THEN NaN ELSE RoundDiv(a * Scale, b)

\* The literal n (an integer) as a float.
Flt(n) == n * Scale

HalfPI == RoundDiv(PI, 2)

\* x reduced to [-PI, PI) and folded into [-PI/2, PI/2] (sin keeps its value).
Fold(x) ==
    LET r == ((x + PI) % (2 * PI)) - PI
    IN  IF r > HalfPI THEN PI - r
        ELSE IF r < -HalfPI THEN -PI - r
        ELSE r

\* numpy.sin, by its series on the folded argument.
sin(x) ==
    LET r  == Fold(x)
        r2 == Mul(r, r)
        r3 == Mul(r, r2)
        r5 == Mul(r3, r2)
        r7 == Mul(r5, r2)
    IN  r - RoundDiv(r3, 6) + RoundDiv(r5, 120) - RoundDiv(r7, 5040)

\* numpy.cos
cos(x) == sin(x + HalfPI)

\* numpy.cumsum of a sequence
RECURSIVE cumsum(_)
cumsum(s) ==
    IF Len(s) <= 1 THEN s
    ELSE LET c == cumsum(SubSeq(s, 1, Len(s) - 1))
         IN  Append(c, c[Len(c)] + s[Len(s)])

\* numpy.dot of two vectors of length 2
dot(a, b) == Mul(a[1], b[1]) + Mul(a[2], b[2])

----------------------------------------------------------------------------
(* Bounds and inputs *)

\* The driver calls step at most MaxSteps times.
MaxSteps == 3

\* Link lengths and masses a caller may pass (0.0, 1.0, 2.0).
ParamSet == {Flt(0), Flt(1), Flt(2)}

\* g as passed: the default 9.8.
DefaultG == RoundDiv(Flt(98), 10)

\* Origins a caller may pass.
OriginSet == {<<Flt(0), Flt(0)>>, <<Flt(1), Flt(-1)>>}

\* init_state as passed: None (the empty tuple) or four numbers.
None == <<>>

InitArgSet ==
    { None,
      <<Flt(180), Flt(0), Flt(-20), Flt(0)>>,
      <<Flt(0), Flt(90), Flt(0), Flt(0)>>,
      <<Flt(45), Flt(-30), Flt(45), Flt(60)>> }

\* The driver's dt: 1/60, 1/10, and a negative step.
DtSet == {RoundDiv(Flt(1), 60), RoundDiv(Flt(1), 10), -RoundDiv(Flt(1), 60)}

\* Finite endpoints the ODE solver may return for a step.
SolverGrid ==
    { <<Flt(0), Flt(0), Flt(0), Flt(0)>>,
      <<Flt(1), RoundDiv(Flt(1), 2), Flt(-1), -Flt(2)>> }

NaNState == <<NaN, NaN, NaN, NaN>>

----------------------------------------------------------------------------
(* class DoublePendulum *)

\* A default of 180 degrees for the first angle.
DefaultInitState_180 == <<Flt(180), Flt(0), Flt(-20), Flt(0)>>

\* __init__: init_state when the argument is None
DefaultInitState == <<Flt(120), Flt(0), Flt(-20), Flt(0)>>

\* __init__: self.init_state
InitStateOf(arg) == IF arg = None THEN DefaultInitState ELSE arg

\* A conversion of the two angles only.
ToRadians_AnglesOnly(is) ==
    [i \in DOMAIN is |-> IF i \in {1, 3} THEN RoundDiv(Mul(is[i], PI), 180) ELSE is[i]]

\* __init__: self.state = self.init_state * np.pi / 180.  (elementwise)
ToRadians(is) == [i \in DOMAIN is |-> RoundDiv(Mul(is[i], PI), 180)]

\* position(): (x, y), three points each
position(p, o, st) ==
    LET L1 == p[1]
        L2 == p[2]
    IN  IF ~(Finite(st[1]) /\ Finite(st[3])) THEN <<<<o[1], NaN, NaN>>, <<o[2], NaN, NaN>>>>
        ELSE << cumsum(<<o[1], Mul(L1, sin(st[1])), Mul(L2, sin(st[3]))>>),
                cumsum(<<o[2], Mul(-L1, cos(st[1])), Mul(-L2, cos(st[3]))>>) >>

\* energy(): y, vx, vy as the source computes them
EnergyY(p, st) == cumsum(<<Mul(-p[1], cos(st[1])), Mul(-p[2], cos(st[3]))>>)

EnergyVx(p, st) ==
    cumsum(<<Mul(Mul(p[1], st[2]), cos(st[1])), Mul(Mul(p[2], st[4]), cos(st[3]))>>)

EnergyVy(p, st) ==
    cumsum(<<Mul(Mul(p[1], st[2]), sin(st[1])), Mul(Mul(p[2], st[4]), sin(st[3]))>>)

\* energy(): u
EnergyU(p, st) ==
    LET M1 == p[3]
        M2 == p[4]
        G  == p[5]
        y  == EnergyY(p, st)
    IN  Mul(G, Mul(M1, y[1]) + Mul(M2, y[2]))

\* energy(): k
EnergyK(p, st) ==
    LET M1 == p[3]
        M2 == p[4]
        vx == EnergyVx(p, st)
        vy == EnergyVy(p, st)
    IN  RoundDiv(Mul(M1, dot(vx, vx)) + Mul(M2, dot(vy, vy)), 2)

\* energy(): u + k
energy(p, st) ==
    IF ~AllFinite(st) THEN NaN ELSE EnergyU(p, st) + EnergyK(p, st)

\* dstate_dt: den1, given the names the unpacking binds
Den1(M1, M2, L1, L2, G, st) ==
    LET cos_delta == cos(st[3] - st[1])
    IN  Mul(M1 + M2, L1) - Mul(Mul(Mul(M2, L1), cos_delta), cos_delta)

\* dstate_dt: L2 / L1 divides two Python floats and raises on a zero divisor.
DivRaises(M1, M2, L1, L2, G) == L1 = 0

\* dstate_dt: den2 (L1 # 0)
Den2(M1, M2, L1, L2, G, st) == Mul(RoundDiv(L2 * Scale, L1), Den1(M1, M2, L1, L2, G, st))

\* dstate_dt: the body after the unpacking, given the names it binds (L1 # 0)
Derivative(M1, M2, L1, L2, G, st) ==
    IF ~AllFinite(st) THEN <<st[2], NaN, st[4], NaN>>
    ELSE
    LET cos_delta == cos(st[3] - st[1])
        sin_delta == sin(st[3] - st[1])
        w1sq(x) == Mul(Mul(x, st[2]), st[2])
        w2sq(x) == Mul(Mul(x, st[4]), st[4])
        num1 == Mul(Mul(w1sq(Mul(M2, L1)), sin_delta), cos_delta)
                + Mul(Mul(Mul(M2, G), sin(st[3])), cos_delta)
                + Mul(w2sq(Mul(M2, L2)), sin_delta)
                - Mul(Mul(M1 + M2, G), sin(st[1]))
        num2 == Mul(Mul(w2sq(Mul(-M2, L2)), sin_delta), cos_delta)
                + Mul(Mul(Mul(M1 + M2, G), sin(st[1])), cos_delta)
                - Mul(w1sq(Mul(M1 + M2, L1)), sin_delta)
                - Mul(Mul(M1 + M2, G), sin(st[3]))
    IN  << st[2],
           NpDiv(num1, Den1(M1, M2, L1, L2, G, st)),
           st[4],
           NpDiv(num2, Den2(M1, M2, L1, L2, G, st)) >>

\* The unpacking in the order __init__ packs: (L1, L2, M1, M2, G) = self.params.
Unpack_InitOrder(p) == <<p[3], p[4], p[1], p[2], p[5]>>

\* dstate_dt: (M1, M2, L1, L2, G) = self.params, as a permutation of params
Unpack(p) == <<p[1], p[2], p[3], p[4], p[5]>>

\* dstate_dt raises ZeroDivisionError
dstate_dt_raises(p) ==
    LET b == Unpack(p) IN DivRaises(b[1], b[2], b[3], b[4], b[5])

\* dstate_dt(state, t): the returned dydx
dstate_dt(p, st, t) ==
    LET b == Unpack(p) IN Derivative(b[1], b[2], b[3], b[4], b[5], st)

\* dydx as an alias of the argument: the writes to dydx reach it.
ArgAfterDstateDt_Alias(arg, dydx) == dydx

\* dstate_dt: dydx = np.zeros_like(state) is a new array, so the writes to
\* dydx leave the argument as it was.
ArgAfterDstateDt(arg, dydx) == arg

\* integrate.odeint(self.dstate_dt, y0, [0, d])[1] when dstate_dt does not
\* raise: the status of the solver and the row it returns.  A non-finite
\* right-hand side or start leaves the solver without a finite result: it
\* warns and returns a non-finite row or the row it started from.
odeint(p, y0, d) ==
    IF AllFinite(y0) /\ AllFinite(dstate_dt(p, y0, 0))
    THEN {[status |-> "ok", y |-> s] : s \in SolverGrid}
    ELSE {[status |-> "failed", y |-> NaNState], [status |-> "failed", y |-> y0]}

\* An increment only when the solver succeeded.
TimeAfterStep_OnSuccess(te, d, status) == IF status = "ok" THEN te + d ELSE te

\* step: self.time_elapsed += dt
TimeAfterStep(te, d, status) == te + d

----------------------------------------------------------------------------
(* The program *)

Init ==
    /\ pc = "new"
    /\ init_arg = None
    /\ init_state = <<>>
    /\ params = <<>>
    /\ origin = <<>>
    /\ time_elapsed = 0
    /\ state = <<>>
    /\ dt \in DtSet
    /\ nsteps = 0
    /\ last = "none"
    /\ exc = "none"
    /\ solver = "none"
    /\ ret = <<>>

\* DoublePendulum(init_state, l1, l2, m1, m2, g, origin)
Construct ==
    /\ pc = "new"
    /\ \E a \in InitArgSet, l1 \in ParamSet, l2 \in ParamSet,
          m1 \in ParamSet, m2 \in ParamSet, o \in OriginSet :
          /\ init_arg' = a
          /\ init_state' = InitStateOf(a)
          /\ params' = <<l1, l2, m1, m2, DefaultG>>
          /\ origin' = o
          /\ state' = ToRadians(InitStateOf(a))
    /\ time_elapsed' = 0
    /\ pc' = "live"
    /\ last' = "init"
    /\ exc' = "none"
    /\ UNCHANGED <<dt, nsteps, solver, ret>>

\* pendulum.position()
Position ==
    /\ pc = "live"
    /\ ret' = position(params, origin, state)
    /\ last' = "position"
    /\ exc' = "none"
    /\ UNCHANGED <<pc, init_arg, init_state, params, origin, time_elapsed,
                   state, dt, nsteps, solver>>

\* pendulum.energy()
Energy ==
    /\ pc = "live"
    /\ ret' = <<energy(params, state)>>
    /\ last' = "energy"
    /\ exc' = "none"
    /\ UNCHANGED <<pc, init_arg, init_state, params, origin, time_elapsed,
                   state, dt, nsteps, solver>>

\* pendulum.dstate_dt(pendulum.state, 0)
DstateDt ==
    /\ pc = "live"
    /\ last' = "dstate_dt"
    /\ \/ /\ dstate_dt_raises(params)
          /\ exc' = "ZeroDivisionError"
          /\ ret' = <<>>
          /\ UNCHANGED state
       \/ /\ ~dstate_dt_raises(params)
          /\ exc' = "none"
          /\ ret' = dstate_dt(params, state, 0)
          /\ state' = ArgAfterDstateDt(state, dstate_dt(params, state, 0))
    /\ UNCHANGED <<pc, init_arg, init_state, params, origin, time_elapsed,
                   dt, nsteps, solver>>

\* pendulum.step(dt)
Step ==
    /\ pc = "live"
    /\ nsteps < MaxSteps
    /\ last' = "step"
    /\ ret' = <<>>
    /\ \/ /\ dstate_dt_raises(params)
          /\ exc' = "ZeroDivisionError"
          /\ UNCHANGED <<state, time_elapsed, nsteps, solver>>
       \/ /\ ~dstate_dt_raises(params)
          /\ \E r \in odeint(params, state, dt) :
                /\ state' = r.y
                /\ solver' = r.status
                /\ time_elapsed' = TimeAfterStep(time_elapsed, dt, r.status)
          /\ nsteps' = nsteps + 1
          /\ exc' = "none"
    /\ UNCHANGED <<pc, init_arg, init_state, params, origin, dt>>

Next == Construct \/ Position \/ Energy \/ DstateDt \/ Step

Spec == Init /\ [][Next]_vars

----------------------------------------------------------------------------
(* Properties *)

l1 == params[1]
l2 == params[2]
m1 == params[3]
m2 == params[4]
g  == params[5]

\* C1: after N step(dt) calls that returned, time_elapsed = N * dt; every
\* returning step adds exactly dt whatever the solver did, and for dt > 0
\* time_elapsed never decreases.
C1_TimeElapsed ==
    /\ [](time_elapsed = nsteps * dt)
    /\ [][(last' = "step" /\ exc' = "none") => time_elapsed' = time_elapsed + dt]_vars
    /\ [][dt > 0 => time_elapsed' >= time_elapsed]_vars

C1_Witness ==
    /\ last = "step" /\ exc = "none" /\ solver = "failed"
    /\ nsteps = 2 /\ dt > 0 /\ time_elapsed = 2 * dt

\* C2: a step whose solver failed (no finite result) ends in an error; it
\* never returns normally.  Stated for instances with positive lengths and
\* first mass, so that a violation does not rest on a zero length.
C2_StepFailsLoudly ==
    (last = "step" /\ solver = "failed" /\ l1 > 0 /\ l2 > 0 /\ m1 > 0) =>
        exc # "none"

\* C3: no instance exists whose lengths or masses are not all positive.
C3_InvalidParameter ==
    pc = "live" => (l1 > 0 /\ l2 > 0 /\ m1 > 0 /\ m2 > 0)

\* The kinetic term as the claim states it: each mass times the squared
\* speed of its own joint.
KineticPerJoint(p, st) ==
    LET vx == EnergyVx(p, st)
        vy == EnergyVy(p, st)
    IN  RoundDiv(Mul(p[3], Mul(vx[1], vx[1]) + Mul(vy[1], vy[1]))
                 + Mul(p[4], Mul(vx[2], vx[2]) + Mul(vy[2], vy[2])), 2)

\* C5: energy() returns U + K with K = 1/2 (M1 (vx1^2 + vy1^2) + M2 (vx2^2 + vy2^2)).
\* Stated for instances with positive lengths and masses, so that a
\* violation does not rest on a zero length or mass.
C5_KineticFormula ==
    (last = "energy" /\ AllFinite(state)
        /\ l1 > 0 /\ l2 > 0 /\ m1 > 0 /\ m2 > 0) =>
        ret = <<EnergyU(params, state) + KineticPerJoint(params, state)>>

\* C6: with m2 = 0 and l1, l2, m1, g positive, dstate_dt returns four finite
\* values for a finite state.
C6_FiniteDerivative ==
    (last = "dstate_dt" /\ m2 = 0 /\ l1 > 0 /\ l2 > 0 /\ m1 > 0 /\ g > 0
        /\ AllFinite(state)) =>
        (exc = "none" /\ Len(ret) = 4 /\ AllFinite(ret))

\* C7 as stated: with init_state omitted the stored default is
\* [180, 0, -20, 0], so the state is (pi, 0, -20 pi / 180, 0).
C7_DefaultIs180 ==
    (pc = "live" /\ init_arg = None /\ nsteps = 0) =>
        /\ init_state = <<Flt(180), Flt(0), Flt(-20), Flt(0)>>
        /\ state = <<PI, 0, -RoundDiv(PI, 9), 0>>

\* C7 amended: with init_state omitted the stored default is
\* [120, 0, -20, 0], so the state is (2 pi / 3, 0, -20 pi / 180, 0).
C7_DefaultIs120 ==
    (pc = "live" /\ init_arg = None /\ nsteps = 0) =>
        /\ init_state = <<Flt(120), Flt(0), Flt(-20), Flt(0)>>
        /\ state = <<RoundDiv(2 * PI, 3), 0, -RoundDiv(PI, 9), 0>>

C7_Witness ==
    /\ pc = "live" /\ init_arg = None /\ nsteps = 0 /\ last = "position"
    /\ state[1] = RoundDiv(2 * PI, 3)

\* C8: position(), energy() and dstate_dt leave state, params, origin and
\* time_elapsed (and the state argument) as they were; step changes only
\* state and time_elapsed.
C8_PureReads ==
    /\ [][last' \in {"position", "energy", "dstate_dt"} =>
            UNCHANGED <<state, params, origin, init_state, time_elapsed>>]_vars
    /\ [][last' = "step" => UNCHANGED <<params, origin, init_state>>]_vars

C8_Witness ==
    /\ last = "dstate_dt" /\ exc = "none" /\ nsteps >= 1
    /\ AllFinite(state) /\ ret # state

\* C9: dstate_dt binds M1, M2 to the constructor's l1, l2 and L1, L2 to its
\* m1, m2 (so its Python division raises exactly when m1 = 0); its result is
\* that of the correctly ordered binding when l1 = m1 and l2 = m2.
\* position() binds L1, L2 to l1, l2.
C9_UnpackOrder ==
    /\ last = "dstate_dt" =>
          /\ (exc = "ZeroDivisionError") <=> (m1 = 0)
          /\ exc = "none" =>
                /\ ret = Derivative(l1, l2, m1, m2, g, state)
                /\ (l1 = m1 /\ l2 = m2) => ret = Derivative(m1, m2, l1, l2, g, state)
    /\ (last = "position" /\ AllFinite(state)) =>
          /\ ret[1][2] - origin[1] = Mul(l1, sin(state[1]))
          /\ ret[1][3] - ret[1][2] = Mul(l2, sin(state[3]))

\* An asymmetric instance on which the two bindings give different
\* accelerations.
C9_Witness ==
    /\ last = "dstate_dt" /\ exc = "none" /\ AllFinite(ret)
    /\ l1 # m1 /\ l1 # 0
    /\ ret # Derivative(m1, m2, l1, l2, g, state)

\* C10: the constructor multiplies all four components of init_state by
\* pi/180; an angular velocity w is stored as w pi/180, which is w only
\* for w = 0.
C10_AllFourScaled ==
    (pc = "live" /\ nsteps = 0) =>
        \A i \in 1..4 :
            /\ state[i] = RoundDiv(Mul(init_state[i], PI), 180)
            /\ i \in {2, 4} => ((state[i] = init_state[i]) <=> (init_state[i] = 0))

C10_Witness ==
    /\ pc = "live" /\ nsteps = 0
    /\ init_state[2] # 0 /\ state[2] # init_state[2]
    /\ state[2] = RoundDiv(Mul(init_state[2], PI), 180)

====
